---- MODULE Spec2Model ----
\* Membrane elasticity plugin (plugin/elasticity/membrane.cc): the plugin's
\* lifecycle (init -> compute* -> destroy) as a state machine over the fields
\* of one Membrane instance and the host storage it reads and writes.
\*
\* Numbers are integers. The inputs are chosen so that every division of the
\* source is exact (E = 16, nu = 0, areas multiples of 4, damping a multiple
\* of the timestep), so \div computes what the floating point code computes.
\* Vectors of the instance (elongation, force, prev) are sequences, index
\* idx of the source being idx+1 here; arrays of mjModel/mjData are functions
\* over 0..n-1.
EXTENDS Integers, Sequences, FiniteSets, TLC

VARIABLES
  pc,                \* lifecycle position of the plugin instance
  m,                 \* the mjModel handed to init and compute
  config,            \* the instance's plugin config attributes (strings)
  oob,               \* what a read at index -1 of a per-flex array yields
  init_ret,          \* return value of plugin.init (1: it has not returned)
  plugin_data,       \* d->plugin_data[instance]: 0 or the Membrane (1)
  flex_stiffness,    \* m->flex_stiffness, one record per element
  stiff_writes,      \* number of writes made to each element's stiffness
  flexedge_length0,  \* m->flexedge_length0
  flexedge_length,   \* d->flexedge_length
  qfrc_passive,      \* d->qfrc_passive, per flex vertex and component
  i0, i0_set,        \* Membrane::i0 and whether it was ever assigned
  f0, nv, ne,        \* Membrane::f0, nv, ne
  damping, thickness,
  elongation, force, prev,
  calls,             \* number of Compute calls made
  at_rest            \* every Compute call so far had deformed = reference

vars == <<pc, m, config, oob, init_ret, plugin_data, flex_stiffness,
          stiff_writes, flexedge_length0, flexedge_length, qfrc_passive,
          i0, i0_set, f0, nv, ne, damping, thickness, elongation, force,
          prev, calls, at_rest>>

\* ---------------------------------------------------------------- bounds
\* largest number of triangles of the flex under test
MaxElem == 2
\* largest number of Compute calls in a lifetime
MaxCalls == 3

\* ------------------------------------------------------------- constants
kNumEdges == 3
kNumVerts == 3
\* the plugin instance id handed to init/compute
Instance == 0

Bodies == 0..2
\* plugin ids of the bodies other than the world: the instance or another
PluginIds == {0, 1}
Timesteps == {1, 2}
AttrNames == {"face", "poisson", "young", "thickness", "damping"}

Min(S) == CHOOSE x \in S : \A y \in S : x <= y
Max(S) == CHOOSE x \in S : \A y \in S : x >= y
Abs(x) == IF x < 0 THEN -x ELSE x
Zeros(n) == [i \in 1..n |-> 0]

\* ------------------------------------------------------- plugin config
\* A config string: a number ("num"), absent ("missing", the empty string)
\* or text that is no number ("garbage"); val is the value of its longest
\* numeric prefix (0 when there is none).
Attr(k, v) == [kind |-> k, val |-> v]

AttrChoices(name) ==
  CASE name = "face"      -> {Attr("num", 1), Attr("missing", 0)}
    [] name = "poisson"   -> {Attr("num", 0), Attr("missing", 0), Attr("garbage", 0)}
    [] name = "young"     -> {Attr("num", 16), Attr("missing", 0), Attr("garbage", 0)}
    [] name = "thickness" -> {Attr("num", 1), Attr("missing", 0), Attr("garbage", 0)}
    [] name = "damping"   -> {Attr("num", -2), Attr("num", 0), Attr("num", 2),
                              Attr("missing", 0), Attr("garbage", 2)}

Configs == {c \in [AttrNames -> UNION {AttrChoices(a) : a \in AttrNames}] :
              \A a \in AttrNames : c[a] \in AttrChoices(a)}

NoConfig == [a \in AttrNames |-> Attr("none", 0)]

\* CheckAttr (elasticity.h): the attribute is present and parses as a number
CheckAttr(name, cfg) == cfg[name].kind = "num"

\* strtod(s, nullptr): the value of the longest numeric prefix, 0 if none
Strtod(a) == IF a.kind = "missing" THEN 0 ELSE a.val

\* the condition of Membrane::Create
CreateOk(cfg) ==
  /\ CheckAttr("face", cfg)
  /\ CheckAttr("poisson", cfg)
  /\ CheckAttr("young", cfg)
  /\ CheckAttr("thickness", cfg)

\* --------------------------------------------------------------- mjModel
NoModel == [nbody |-> 0, nflex |-> 0]

\* A model with bodies 0..2 (0 the world), flex 0 a strip of k triangles
\* (vertices t, t+1, t+2 for triangle t; 2k+1 edges) whose vertex v is
\* attached to body vb[v], and Len(xb) further one-triangle flexes, flex j
\* attached to body xb[j].
StripModel(bp, k, vb, xb, ts) ==
  LET nflex == 1 + Len(xb)
      F     == 0..(nflex - 1)
      nvert == (k + 2) + 3 * Len(xb)
      nelem == k + Len(xb)
      nedge == (2 * k + 1) + 3 * Len(xb)
      eadr  == [f \in F |-> IF f = 0 THEN 0 ELSE k + (f - 1)]
      vadr  == [f \in F |-> IF f = 0 THEN 0 ELSE (k + 2) + 3 * (f - 1)]
      \* index of element a within its flex
      loc(a) == IF a < k THEN a ELSE 0
      \* index of vertex g within its flex
      vloc(g) == IF g < k + 2 THEN g ELSE (g - (k + 2)) % 3
  IN [nbody            |-> 3,
      body_plugin      |-> [b \in Bodies |-> IF b = 0 THEN -1 ELSE bp[b]],
      nflex            |-> nflex,
      nvert            |-> nvert,
      nelem            |-> nelem,
      nedge            |-> nedge,
      flex_dim         |-> [f \in F |-> 2],
      flex_vertnum     |-> [f \in F |-> IF f = 0 THEN k + 2 ELSE 3],
      flex_vertadr     |-> vadr,
      flex_vertbodyid  |-> [g \in 0..(nvert - 1) |->
                              IF g < k + 2 THEN vb[g]
                              ELSE xb[((g - (k + 2)) \div 3) + 1]],
      flex_elemnum     |-> [f \in F |-> IF f = 0 THEN k ELSE 1],
      flex_elemadr     |-> eadr,
      flex_elemdataadr |-> [f \in F |-> 3 * eadr[f]],
      flex_elem        |-> [a \in 0..(3 * nelem - 1) |->
                              loc(a \div 3) + (a % 3)],
      flex_elemedgeadr |-> [f \in F |-> 3 * eadr[f]],
      flex_elemedge    |-> [a \in 0..(3 * nelem - 1) |->
                              2 * loc(a \div 3) + (a % 3)],
      flex_edgenum     |-> [f \in F |-> IF f = 0 THEN 2 * k + 1 ELSE 3],
      flex_edgeadr     |-> [f \in F |-> IF f = 0 THEN 0
                                        ELSE (2 * k + 1) + 3 * (f - 1)],
      flex_xvert0      |-> [g \in 0..(nvert - 1) |->
                              <<2 * vloc(g), 4 * (vloc(g) % 2), 0>>],
      timestep         |-> ts]

\* vertex-to-body maps of flex 0: every vertex on body b, except that the
\* first or the last vertex (dv) may be on body db (possibly the world, 0)
VertBodyChoices(k) ==
  {[v \in 0..(k + 1) |-> IF v = dv THEN db ELSE b] :
     b \in Bodies \ {0}, dv \in {-1, 0, k + 1}, db \in Bodies}

ExtraFlexChoices == {<<>>, <<1>>}

Models ==
  UNION {{StripModel(bp, k, vb, xb, ts) :
            bp \in {<<p1, p2>> : p1 \in PluginIds, p2 \in PluginIds},
            vb \in VertBodyChoices(k),
            xb \in ExtraFlexChoices, ts \in Timesteps} : k \in 1..MaxElem}

\* The per-flex fields the plugin reads for flex f. A read at an index
\* outside 0..nflex-1 is a read outside the array: it yields whatever lies
\* there (ob), the same on every read.
Flex(mm, f, ob) ==
  IF f \in 0..(mm.nflex - 1)
  THEN [fault       |-> FALSE,
        dim         |-> mm.flex_dim[f],
        vertnum     |-> mm.flex_vertnum[f],
        vertadr     |-> mm.flex_vertadr[f],
        elemnum     |-> mm.flex_elemnum[f],
        elemadr     |-> mm.flex_elemadr[f],
        elemdataadr |-> mm.flex_elemdataadr[f],
        elemedgeadr |-> mm.flex_elemedgeadr[f],
        edgenum     |-> mm.flex_edgenum[f],
        edgeadr     |-> mm.flex_edgeadr[f]]
  ELSE ob

\* outcomes of reading the per-flex arrays at index -1: the process faults,
\* or the reads return neighbouring memory (here an empty flex with a
\* negative, zero or positive edge count)
OobReads ==
  {[fault |-> fl, dim |-> 2, vertnum |-> 0, vertadr |-> 0, elemnum |-> 0,
    elemadr |-> 0, elemdataadr |-> 0, elemedgeadr |-> 0, edgenum |-> en,
    edgeadr |-> 0] : fl \in {FALSE}, en \in {-1, 0, 2}}
  \cup
  {[fault |-> TRUE, dim |-> 2, vertnum |-> 0, vertadr |-> 0, elemnum |-> 0,
    elemadr |-> 0, elemdataadr |-> 0, elemedgeadr |-> 0, edgenum |-> 0,
    edgeadr |-> 0]}

\* placeholder for the reads when no read at index -1 is made
NoOob == CHOOSE ob \in OobReads : ~ob.fault /\ ob.edgenum = 0

\* values an uninitialized int member can hold: a body id or no body id
IndetInts == Bodies \cup {-1}

\* ------------------------------------------------- Membrane::Membrane
\* "count plugin bodies": the bodies i >= 1 carrying the instance
PluginBodies(mm, inst) ==
  {i \in 1..(mm.nbody - 1) : mm.body_plugin[i] = inst}

\* i0 after the body loop: the first plugin body; never assigned (indet, an
\* indeterminate value) when no body carries the instance
FirstBody(mm, inst, indet) ==
  IF PluginBodies(mm, inst) = {} THEN indet ELSE Min(PluginBodies(mm, inst))

\* "count flexes": f0 is the last flex with a vertex on body b, -1 if none
FlexOfBody(mm, b) ==
  LET fs == {i \in 0..(mm.nflex - 1) :
               \E j \in 0..(mm.flex_vertnum[i] - 1) :
                 mm.flex_vertbodyid[mm.flex_vertadr[i] + j] = b}
  IN IF fs = {} THEN -1 ELSE Max(fs)

\* const int* v = elem + (m->flex_dim[f0]+1) * t
ElemVerts(mm, fx, t) ==
  [i \in 0..(kNumVerts - 1) |->
     mm.flex_elem[fx.elemdataadr + (fx.dim + 1) * t + i]]

\* int bi = m->flex_vertbodyid[m->flex_vertadr[f0]+v[i]]
VertBody(mm, fx, vi) == mm.flex_vertbodyid[fx.vertadr + vi]

\* faulty variant: the comparison with the instance inverted
MismatchInverted(mm, bi, inst) == bi # 0 /\ mm.body_plugin[bi] = inst

\* the condition under which mju_error is raised for body bi
Mismatch(mm, bi, inst) == bi # 0 /\ mm.body_plugin[bi] # inst

\* the values of t the triangle loop runs over
ElemRange(n) == 0..(n - 1)

Sub3(a, b) == <<a[1] - b[1], a[2] - b[2], a[3] - b[3]>>
Cross(a, b) == <<a[2] * b[3] - a[3] * b[2],
                 a[3] * b[1] - a[1] * b[3],
                 a[1] * b[2] - a[2] * b[1]>>
ISqrt(n) == CHOOSE r \in 0..n : r * r <= n /\ n < (r + 1) * (r + 1)
Norm3(a) == ISqrt(a[1] * a[1] + a[2] * a[2] + a[3] * a[3])

\* area of a triangle; x is the position of the flex's vertices
ComputeVolume(x, v) ==
  LET edge1 == Sub3(x[v[1]], x[v[0]])
      edge2 == Sub3(x[v[2]], x[v[0]])
  IN Norm3(Cross(edge1, edge2)) \div 2

\* mjtNum* body_pos = m->flex_xvert0 + 3*m->flex_vertadr[f0]
BodyPos(mm, fx) ==
  [i \in 0..(fx.vertnum - 1) |-> mm.flex_xvert0[fx.vertadr + i]]

\* material parameters of one triangle
Mu(E, nu, volume, thick) ==
  (((E \div (2 * (1 + nu))) * Abs(volume)) \div 4) * thick
La(E, nu, volume, thick) ==
  ((((E * nu) \div ((1 + nu) * (1 - 2 * nu))) * Abs(volume)) \div 4) * thick

\* faulty variant: every triangle stored at the first triangle's place
StiffnessIndexFirst(fx, t) == fx.elemadr

\* index in the stiffness storage of triangle t of the flex
StiffnessIndex(fx, t) == fx.elemadr + t

\* MetricTensor<Stencil2D> (elasticity.h): stores the tensor of triangle t,
\* a combination of the basis tensors weighted by mu and la, at the
\* triangle's place in the storage
MetricTensor(k, idx, mu, la) ==
  [g \in DOMAIN k |-> IF g = idx THEN [mu |-> mu, la |-> la] ELSE k[g]]

\* the triangle loop of the constructor over the values T of t still to
\* come: k is the stiffness storage, w the write counts; stops at the first
\* triangle with a mismatching vertex (mju_error does not return)
RECURSIVE ScanTriangles(_, _, _, _, _, _, _, _, _)
ScanTriangles(k, w, mm, fx, inst, E, nu, thick, T) ==
  IF T = {} THEN [aborted |-> FALSE, k |-> k, w |-> w]
  ELSE
    LET t   == Min(T)
        v   == ElemVerts(mm, fx, t)
        bad == \E i \in 0..(kNumVerts - 1) :
                 Mismatch(mm, VertBody(mm, fx, v[i]), inst)
        volume == ComputeVolume(BodyPos(mm, fx), v)
        mu  == Mu(E, nu, volume, thick)
        la  == La(E, nu, volume, thick)
        idx == StiffnessIndex(fx, t)
    IN IF bad THEN [aborted |-> TRUE, k |-> k, w |-> w]
       ELSE ScanTriangles(MetricTensor(k, idx, mu, la),
                          [w EXCEPT ![idx] = @ + 1],
                          mm, fx, inst, E, nu, thick, T \ {t})

\* Membrane::Create past its check, and Membrane::Membrane: the outcome and
\* the fields of the object. indet is the content of the uninitialized i0,
\* ob what reads at flex index -1 yield.
Construct(mm, cfg, inst, indet, ob) ==
  LET nu    == Strtod(cfg["poisson"])
      E     == Strtod(cfg["young"])
      thick == Strtod(cfg["thickness"])
      damp  == Strtod(cfg["damping"])
      nv0   == Cardinality(PluginBodies(mm, inst))
      i0v   == FirstBody(mm, inst, indet)
      f0v   == FlexOfBody(mm, i0v)
      nvv   == IF f0v = -1 THEN nv0 ELSE mm.flex_vertnum[f0v]
      fx    == Flex(mm, f0v, ob)
      k0    == [g \in 0..(mm.nelem - 1) |-> [mu |-> 0, la |-> 0]]
      w0    == [g \in 0..(mm.nelem - 1) |-> 0]
      scan  == IF fx.fault THEN [aborted |-> FALSE, k |-> k0, w |-> w0]
               ELSE ScanTriangles(k0, w0, mm, fx, inst, E, nu, thick,
                                  ElemRange(fx.elemnum))
      nev   == fx.edgenum
      out   == IF fx.fault THEN "fault"
               ELSE IF scan.aborted THEN "abort"
               ELSE IF nev < 0 \/ nvv < 0 THEN "throw"
               ELSE "ok"
  IN [outcome |-> out, i0 |-> i0v, i0_set |-> PluginBodies(mm, inst) # {},
      f0 |-> f0v, nv |-> nvv, ne |-> IF out = "ok" THEN nev ELSE 0,
      damping |-> damp, thickness |-> thick,
      k |-> scan.k, w |-> scan.w,
      elongation |-> IF out = "ok" THEN Zeros(nev) ELSE <<>>,
      force |-> IF out = "ok" THEN Zeros(3 * nvv) ELSE <<>>]

\* --------------------------------------------------- Membrane::Compute
\* mjtNum kD = damping / m->opt.timestep
KD(damp, ts) == damp \div ts

\* the n entries of arr from address adr on
Slice(arr, adr, n) == [i \in 1..n |-> arr[adr + (i - 1)]]

\* faulty variant: the snapshot allocated one entry too long
LazyInitLong(p, ref, n) ==
  IF Len(p) = 0 THEN [i \in 1..(n + 1) |-> IF i <= n THEN ref[i] ELSE 0] ELSE p

\* faulty variant: the snapshot copied from the reference lengths on every call
LazyInitAlways(p, ref, n) == [i \in 1..n |-> ref[i]]

\* faulty variant: the snapshot allocated but the reference lengths not copied
LazyInitZeros(p, ref, n) == IF Len(p) = 0 THEN Zeros(n) ELSE p

\* if (prev.empty()) { prev.assign(ne, 0); memcpy(prev.data(), ref, ...) }
LazyInit(p, ref, n) ==
  IF Len(p) = 0 THEN [i \in 1..n |-> ref[i]] ELSE p

\* faulty variant: the damping term not scaled by kD
ElongationUnscaled(d, r, p, kD) == d * d - r * r + (d * d - p * p)

\* elongation of one edge
Elongation(d, r, p, kD) == d * d - r * r + (d * d - p * p) * kD

\* faulty variant: the loop adds to the elongation instead of assigning it
ElongationLoopAdd(old, deformed, ref, p, kD, n) ==
  [idx \in 1..Len(old) |->
     IF idx <= n
     THEN old[idx] + (deformed[idx] * deformed[idx] - ref[idx] * ref[idx]
                      + (deformed[idx] * deformed[idx] - p[idx] * p[idx]) * kD)
     ELSE old[idx]]

\* the loop "for (idx < ne) elongation[idx] = ..." over the vector old
ElongationLoop(old, deformed, ref, p, kD, n) ==
  [idx \in 1..Len(old) |->
     IF idx <= n
     THEN Elongation(deformed[idx], ref[idx], p[idx], kD)
     ELSE old[idx]]

\* faulty variant: the snapshot overwritten also when kD is 0
UpdateStoredLengthsNonNeg(p, deformed, n, kD) ==
  IF kD >= 0
  THEN [i \in 1..Len(p) |-> IF i <= n THEN deformed[i] ELSE p[i]]
  ELSE p

\* if (kD > 0) memcpy(prev.data(), deformed, sizeof(mjtNum) * ne)
UpdateStoredLengths(p, deformed, n, kD) ==
  IF kD > 0
  THEN [i \in 1..Len(p) |-> IF i <= n THEN deformed[i] ELSE p[i]]
  ELSE p

RECURSIVE SumSeq(_)
SumSeq(q) == IF q = <<>> THEN 0 ELSE Head(q) + SumSeq(Tail(q))

\* ComputeForce<Stencil2D> (elasticity.h): the buffer starts the pass from
\* zero; every triangle adds, to each of its vertices, the contraction of
\* its stiffness with the elongations of its own edges
ComputeForce(frc, elong, mm, fx, k) ==
  [j \in 1..Len(frc) |->
     LET vtx == (j - 1) \div 3
         x   == (j - 1) % 3
         contrib(t) ==
           LET v  == ElemVerts(mm, fx, t)
               kt == k[fx.elemadr + t]
               el == SumSeq([e \in 1..kNumEdges |->
                       elong[mm.flex_elemedge[fx.elemedgeadr
                                              + kNumEdges * t + (e - 1)] + 1]])
               n  == Cardinality({i \in 0..(kNumVerts - 1) : v[i] = vtx})
           IN n * el * (kt.mu + kt.la) * (x + 1)
     IN 0 - SumSeq([t1 \in 1..fx.elemnum |-> contrib(t1 - 1)])]

\* AddFlexForce (elasticity.h): adds the force of every vertex of the flex
\* into the passive force
AddFlexForce(qfrc, frc, fx) ==
  [g \in DOMAIN qfrc |->
     LET vtx == (g \div 3) - fx.vertadr
     IN IF vtx \in 0..(fx.vertnum - 1)
        THEN qfrc[g] + frc[3 * vtx + (g % 3) + 1]
        ELSE qfrc[g]]

\* the instance's view of the reference and of the deformed edge lengths
Ref == Slice(flexedge_length0, Flex(m, f0, oob).edgeadr, ne)
Deformed == Slice(flexedge_length, Flex(m, f0, oob).edgeadr, ne)

\* reference lengths the host computes after the plugins are constructed
RefLengths(mm) == [e \in 0..(mm.nedge - 1) |-> 2 + (e % 2)]

\* poses the host presents: the rest pose (0), or edge p stretched by 1
Poses(n) == {0, 1, n} \cap 0..n

\* ----------------------------------------------------------- actions
Init ==
  /\ pc = "start"
  /\ m = NoModel
  /\ config = NoConfig
  /\ oob = NoOob
  /\ init_ret = 1
  /\ plugin_data = 0
  /\ flex_stiffness = <<>>
  /\ stiff_writes = <<>>
  /\ flexedge_length0 = <<>>
  /\ flexedge_length = <<>>
  /\ qfrc_passive = <<>>
  /\ i0 = -1
  /\ i0_set = FALSE
  /\ f0 = -1
  /\ nv = 0
  /\ ne = 0
  /\ damping = 0
  /\ thickness = 0
  /\ elongation = <<>>
  /\ force = <<>>
  /\ prev = <<>>
  /\ calls = 0
  /\ at_rest = TRUE

\* plugin.init -> Membrane::Create -> Membrane::Membrane
PluginInit ==
  /\ pc = "start"
  /\ \E cfg \in Configs :
       /\ config' = cfg
       /\ IF ~CreateOk(cfg)
          THEN /\ pc' = "failed"
               /\ init_ret' = -1
               /\ UNCHANGED <<m, oob, plugin_data, flex_stiffness,
                              stiff_writes, flexedge_length0, flexedge_length,
                              qfrc_passive, i0, i0_set, f0, nv, ne, damping,
                              thickness, elongation, force>>
          ELSE \E mm \in Models :
               \E indet \in IF PluginBodies(mm, Instance) = {}
                            THEN IndetInts ELSE {-1} :
               \E ob \in IF FlexOfBody(mm, FirstBody(mm, Instance, indet)) = -1
                         THEN OobReads ELSE {NoOob} :
               LET c == Construct(mm, cfg, Instance, indet, ob) IN
               /\ m' = mm
               /\ oob' = ob
               /\ pc' = CASE c.outcome = "ok"    -> "built"
                          [] c.outcome = "abort" -> "aborted"
                          [] OTHER               -> "crashed"
               /\ init_ret' = IF c.outcome = "ok" THEN 0 ELSE 1
               /\ plugin_data' = IF c.outcome = "ok" THEN 1 ELSE 0
               /\ flex_stiffness' = c.k
               /\ stiff_writes' = c.w
               /\ flexedge_length0' = [e \in 0..(mm.nedge - 1) |-> 0]
               /\ flexedge_length' = [e \in 0..(mm.nedge - 1) |-> 0]
               /\ qfrc_passive' = [g \in 0..(3 * mm.nvert - 1) |-> 0]
               /\ i0' = c.i0
               /\ i0_set' = c.i0_set
               /\ f0' = c.f0
               /\ nv' = c.nv
               /\ ne' = c.ne
               /\ damping' = c.damping
               /\ thickness' = c.thickness
               /\ elongation' = c.elongation
               /\ force' = c.force
  /\ UNCHANGED <<prev, calls, at_rest>>

\* the host fills in the reference edge lengths once the data is made
SetConst ==
  /\ pc = "built"
  /\ pc' = "ready"
  /\ flexedge_length0' = RefLengths(m)
  /\ flexedge_length' = RefLengths(m)
  /\ UNCHANGED <<m, config, oob, init_ret, plugin_data, flex_stiffness,
                 stiff_writes, qfrc_passive, i0, i0_set, f0, nv, ne, damping,
                 thickness, elongation, force, prev, calls, at_rest>>

\* plugin.compute -> Membrane::Compute, on the pose p; the passive force the
\* host has accumulated so far in this step is 1 in every component
Compute ==
  /\ pc = "ready"
  /\ calls < MaxCalls
  /\ \E p \in Poses(ne) :
       LET fx       == Flex(m, f0, oob)
           kD       == KD(damping, m.timestep)
           ref      == Slice(flexedge_length0, fx.edgeadr, ne)
           deformed == [i \in 1..ne |-> ref[i] + IF i = p THEN 1 ELSE 0]
           p1       == LazyInit(prev, ref, ne)
           elong    == ElongationLoop(elongation, deformed, ref, p1, kD, ne)
           frc      == ComputeForce(force, elong, m, fx, flex_stiffness)
       IN /\ flexedge_length' =
               [e \in DOMAIN flexedge_length |->
                  IF e - fx.edgeadr \in 0..(ne - 1)
                  THEN deformed[e - fx.edgeadr + 1]
                  ELSE flexedge_length0[e]]
          /\ elongation' = elong
          /\ force' = frc
          /\ qfrc_passive' =
               AddFlexForce([g \in DOMAIN qfrc_passive |-> 1], frc, fx)
          /\ prev' = UpdateStoredLengths(p1, deformed, ne, kD)
          /\ at_rest' = (at_rest /\ deformed = ref)
  /\ calls' = calls + 1
  /\ UNCHANGED <<pc, m, config, oob, init_ret, plugin_data, flex_stiffness,
                 stiff_writes, flexedge_length0, i0, i0_set, f0, nv, ne,
                 damping, thickness>>

\* plugin.destroy: the Membrane is deleted, and its vectors with it
Destroy ==
  /\ pc \in {"built", "ready"}
  /\ pc' = "destroyed"
  /\ plugin_data' = 0
  /\ elongation' = <<>>
  /\ force' = <<>>
  /\ prev' = <<>>
  /\ UNCHANGED <<m, config, oob, init_ret, flex_stiffness, stiff_writes,
                 flexedge_length0, flexedge_length, qfrc_passive, i0, i0_set,
                 f0, nv, ne, damping, thickness, calls, at_rest>>

Next == PluginInit \/ SetConst \/ Compute \/ Destroy

Spec == Init /\ [][Next]_vars

\* --------------------------------------------- the elongation kernel
\* Compute applied to an instance whose previous-length snapshot holds
\* arbitrary lengths: the inputs of the elongation formula range over
\* deformed, reference and previous lengths independently.
KernelModels ==
  {StripModel(<<0, 0>>, k, [v \in 0..(k + 1) |-> 1], <<>>, ts) :
     k \in 1..MaxElem, ts \in Timesteps}

KernelConfigs ==
  {c \in Configs : \A a \in AttrNames : c[a].kind = "num"}

PrevChoices(n) ==
  {[i \in 1..n |-> b + IF i = j THEN 1 ELSE 0] : b \in 1..3, j \in 0..n}

InitKernel ==
  \E mm \in KernelModels, cfg \in KernelConfigs :
    LET c == Construct(mm, cfg, Instance, -1, NoOob) IN
    /\ pc = "ready"
    /\ m = mm
    /\ config = cfg
    /\ oob = NoOob
    /\ init_ret = 0
    /\ plugin_data = 1
    /\ flex_stiffness = c.k
    /\ stiff_writes = c.w
    /\ flexedge_length0 = RefLengths(mm)
    /\ flexedge_length = RefLengths(mm)
    /\ qfrc_passive = [g \in 0..(3 * mm.nvert - 1) |-> 0]
    /\ i0 = c.i0
    /\ i0_set = c.i0_set
    /\ f0 = c.f0
    /\ nv = c.nv
    /\ ne = c.ne
    /\ damping = c.damping
    /\ thickness = c.thickness
    /\ elongation = c.elongation
    /\ force = c.force
    /\ prev \in PrevChoices(c.ne)
    /\ calls = 0
    /\ at_rest = TRUE

NextKernel == Compute

SpecKernel == InitKernel /\ [][NextKernel]_vars

\* ------------------------------------------------------------ claims
Constructed == pc \in {"built", "ready", "destroyed"}
CtorRan == pc \in {"built", "ready", "destroyed", "aborted", "crashed"}
Live == pc \in {"built", "ready"}
MaterialAttrs == {"poisson", "young", "thickness", "damping"}
\* the flex the instance works on
Fx == Flex(m, f0, oob)
\* plugin id of the body of vertex i of triangle t of the instance's flex
PluginOfVert(t, i) ==
  m.body_plugin[m.flex_vertbodyid[Fx.vertadr
     + m.flex_elem[Fx.elemdataadr + (Fx.dim + 1) * t + i]]]
BodyOfVert(t, i) ==
  m.flex_vertbodyid[Fx.vertadr
     + m.flex_elem[Fx.elemdataadr + (Fx.dim + 1) * t + i]]

\* C1: whenever one of poisson, young, thickness, damping is missing or
\* unparseable, init constructs no instance.
C1_BadMaterialAttrFails ==
  (pc # "start" /\ \E a \in MaterialAttrs : config[a].kind # "num")
    => ~Constructed

\* C2: the stiffness of every element of the instance's flex, and of no
\* other element, has been written exactly once, at construction and after
\* any number of Compute calls.
C2_StiffnessWrittenOnce ==
  Live =>
    \A g \in DOMAIN stiff_writes :
      stiff_writes[g] =
        IF g - Fx.elemadr \in 0..(Fx.elemnum - 1) THEN 1 ELSE 0

C2_Witness ==
  /\ pc = "ready" /\ calls >= 2 /\ damping > 0
  /\ Fx.elemnum >= 2
  /\ \A t \in 0..(Fx.elemnum - 1) : stiff_writes[Fx.elemadr + t] = 1

\* C3: prev is empty or has exactly ne entries.
C3_PrevEmptyOrFull == Len(prev) = 0 \/ Len(prev) = ne

C3_Witness == pc = "ready" /\ calls >= 2 /\ ne > 0 /\ Len(prev) = ne

\* C4: the first Compute call computes the elongations with the reference
\* lengths as previous lengths; every later call computes them with the
\* snapshot the call before left, not with the reference lengths again.
C4_LazyInitFirstCallOnly ==
  [][(pc = "ready" /\ calls' = calls + 1) =>
       \A idx \in 1..ne :
         elongation'[idx] =
           Elongation(Deformed'[idx], Ref[idx],
                      (IF calls = 0 THEN Ref ELSE prev)[idx],
                      KD(damping, m.timestep))]_vars

C4_Witness ==
  /\ pc = "ready" /\ calls >= 2 /\ damping > 0
  /\ \E idx \in 1..ne :
       elongation[idx] # Elongation(Deformed[idx], Ref[idx], Ref[idx],
                                    KD(damping, m.timestep))

\* C5: after a Compute call prev holds that call's deformed lengths when
\* damping > 0, and the reference lengths when damping is not above 0.
C5_PrevUpdatedIffDamping ==
  (pc = "ready" /\ calls >= 1) =>
    /\ damping > 0 => prev = Deformed
    /\ damping <= 0 => prev = Ref

C5_Witness ==
  /\ pc = "ready" /\ calls >= 2 /\ damping > 0
  /\ prev = Deformed /\ Deformed # Ref

\* C6: while every call so far had deformed = reference, every elongation
\* is 0, whatever the damping.
C6_RestPoseZeroElongation ==
  (pc = "ready" /\ calls >= 1 /\ at_rest) =>
    \A idx \in 1..ne : elongation[idx] = 0

C6_Witness ==
  pc = "ready" /\ calls >= 2 /\ at_rest /\ damping # 0 /\ ne > 0

\* C7: with damping = 0 the elongation of every edge is
\* deformed^2 - reference^2, whatever the previous lengths are.
C7_ZeroDampingElongation ==
  (pc = "ready" /\ calls >= 1 /\ damping = 0) =>
    \A idx \in 1..ne :
      elongation[idx] = Deformed[idx] * Deformed[idx] - Ref[idx] * Ref[idx]

C7_Witness ==
  /\ pc = "ready" /\ calls >= 1 /\ damping = 0 /\ ne > 0
  /\ \E idx \in 1..ne : prev[idx] # Ref[idx] /\ prev[idx] # Deformed[idx]
  /\ Deformed # Ref

\* C8: with damping = 0, a Compute call at the pose of the call before
\* leaves the elongation and the force buffers as that call left them.
C8_IdempotentAtZeroDamping ==
  [][(/\ pc = "ready" /\ calls >= 1 /\ calls' = calls + 1
      /\ damping = 0 /\ Deformed' = Deformed)
       => (elongation' = elongation /\ force' = force)]_vars

C8_Witness ==
  /\ pc = "ready" /\ calls >= 2 /\ damping = 0
  /\ \E j \in 1..Len(force) : force[j] # 0

\* C9 as stated: a scanned vertex on any body whose plugin is not the
\* instance makes construction abort, with the stiffness of that triangle
\* and of every later one unwritten.
C9_AnyForeignBodyAborts ==
  (CtorRan /\ ~Fx.fault) =>
    \A t \in 0..(Fx.elemnum - 1) :
      (\E i \in 0..(kNumVerts - 1) : PluginOfVert(t, i) # Instance) =>
        /\ pc = "aborted"
        /\ \A u \in t..(Fx.elemnum - 1) : stiff_writes[Fx.elemadr + u] = 0

\* C9 amended: the same for a vertex on a body other than the world body.
C9_ForeignNonWorldBodyAborts ==
  (CtorRan /\ ~Fx.fault) =>
    \A t \in 0..(Fx.elemnum - 1) :
      (\E i \in 0..(kNumVerts - 1) :
         BodyOfVert(t, i) # 0 /\ PluginOfVert(t, i) # Instance) =>
        /\ pc = "aborted"
        /\ plugin_data = 0
        /\ \A u \in t..(Fx.elemnum - 1) : stiff_writes[Fx.elemadr + u] = 0

C9_Witness ==
  /\ pc = "aborted" /\ i0_set /\ Fx.elemnum >= 2
  /\ stiff_writes[Fx.elemadr] = 1
  /\ stiff_writes[Fx.elemadr + Fx.elemnum - 1] = 0
  /\ \E i \in 0..(kNumVerts - 1) :
       /\ BodyOfVert(Fx.elemnum - 1, i) # 0
       /\ PluginOfVert(Fx.elemnum - 1, i) # Instance

\* C10: when the constructor reads the per-flex data, f0 is a flex of the
\* model and i0 has been assigned.
C10_FlexIndexValid ==
  CtorRan => (f0 \in 0..(m.nflex - 1) /\ i0_set)
====
